---- MODULE Spec2Model ----
(***************************************************************************)
(* Model of the cue script orchestrator (src/orchestrator.py): context     *)
(* flattening and merging, planning of executables with deduplication and  *)
(* pipe linking (queue_tasks), and the file-coordinated execution of the   *)
(* plan by a pool of worker processes (run / _run).                        *)
(*                                                                         *)
(* Representation.                                                         *)
(*  - A Python str that the code splits or strips is a tuple of one-       *)
(*    character strings; names that are only compared (tags, guids, block  *)
(*    names) are TLA+ strings.                                             *)
(*  - A scalar is [t |-> "str", v |-> chars] or [t |-> "int", v |-> n].    *)
(*  - A Python dict is the sequence of its items [k, v] in insertion       *)
(*    order; dict equality ignores the order (DictEq).                     *)
(*  - An Executable object is identified by its position in                *)
(*    executable_list; n_pipes_in and outgoing_pipes are sequences         *)
(*    parallel to executable_list.                                         *)
(***************************************************************************)
EXTENDS Integers, Sequences, FiniteSets, TLC

\* ------------------------------------------------------------------------
\* Bounds of the model
\* ------------------------------------------------------------------------

\* largest n_times_before_timeout a run is given (0..MaxTries)
MaxTries == 2

\* largest max_processes a run is given (1..MaxProcesses)
MaxProcesses == 2

\* ------------------------------------------------------------------------
\* Python values
\* ------------------------------------------------------------------------

\* None, as returned by script_json.get('takes', None)
None == "<None>"

PyStr(chars) == [t |-> "str", v |-> chars]

PyInt(n) == [t |-> "int", v |-> n]

PyList(vals) == [t |-> "list", v |-> vals]

\* a range dict without the optional 'step' entry
Range(start, end) == [t |-> "range", v |-> [start |-> start, end |-> end]]

\* a range dict with a 'step' entry
RangeStep(start, end, step) ==
    [t |-> "range", v |-> [start |-> start, end |-> end, step |-> step]]

\* Python truthiness of a str-or-None value (`if script.takes:`)
Truthy(x) == x # None /\ x # ""

\* ------------------------------------------------------------------------
\* dict operations ({**a, **b}, dict.update, dict ==)
\* ------------------------------------------------------------------------

DictHasKey(d, k) == \E i \in 1..Len(d) : d[i].k = k

\* d[k] = v : an existing key keeps its position, a new key is appended
DictSet(d, k, v) ==
    IF DictHasKey(d, k)
    THEN [i \in 1..Len(d) |-> IF d[i].k = k THEN [k |-> k, v |-> v] ELSE d[i]]
    ELSE Append(d, [k |-> k, v |-> v])

RECURSIVE DictUpdateFrom(_, _, _)
DictUpdateFrom(d, e, i) ==
    IF i > Len(e) THEN d
    ELSE DictUpdateFrom(DictSet(d, e[i].k, e[i].v), e, i + 1)

\* {**d, **e}, and d.update(e)
DictUpdate(d, e) == DictUpdateFrom(d, e, 1)

\* Python's scalar ==, between str and int values
ValEq(a, b) == a.t = b.t /\ a.v = b.v

\* dict == : same keys, equal values, any order
DictEq(a, b) ==
    /\ Len(a) = Len(b)
    /\ \A i \in 1..Len(a) :
          \E j \in 1..Len(b) : a[i].k = b[j].k /\ ValEq(a[i].v, b[j].v)

\* ------------------------------------------------------------------------
\* str operations (str.split(','), str.strip())
\* ------------------------------------------------------------------------

paired_delimiter == ","

RECURSIVE SplitFrom(_, _, _, _)
SplitFrom(s, i, cur, acc) ==
    IF i > Len(s) THEN Append(acc, cur)
    ELSE IF s[i] = paired_delimiter
         THEN SplitFrom(s, i + 1, <<>>, Append(acc, cur))
         ELSE SplitFrom(s, i + 1, Append(cur, s[i]), acc)

\* s.split(','): the components between the delimiters, empty ones kept
Split(s) == SplitFrom(s, 1, <<>>, <<>>)

RECURSIVE LStrip(_)
LStrip(s) ==
    IF Len(s) > 0 /\ s[1] = " " THEN LStrip(Tail(s)) ELSE s

RECURSIVE RStrip(_)
RStrip(s) ==
    IF Len(s) > 0 /\ s[Len(s)] = " " THEN RStrip(SubSeq(s, 1, Len(s) - 1)) ELSE s

\* s.strip()
Strip(s) == RStrip(LStrip(s))

\* ------------------------------------------------------------------------
\* ContextHelper
\* ------------------------------------------------------------------------

key_is_paired(key) == \E i \in 1..Len(key) : key[i] = paired_delimiter

\* paired_parameter_expansion_for without x.strip()
paired_expansion_unstripped(paired_str) == Split(paired_str)

paired_parameter_expansion_for(paired_str) ==
    LET parts == Split(paired_str)
    IN  [i \in 1..Len(parts) |-> Strip(parts[i])]

RECURSIVE ZipDict(_, _, _, _)
ZipDict(keys, vals, i, acc) ==
    IF i > Len(keys) \/ i > Len(vals) THEN acc
    ELSE ZipDict(keys, vals, i + 1, DictSet(acc, keys[i], PyStr(vals[i])))

\* unpair(key, val): a paired key is zipped with the components of the
\* paired value (val is a str there); any other key maps to val itself
unpair(key, val) ==
    IF key_is_paired(key)
    THEN ZipDict(paired_parameter_expansion_for(key),
                 paired_parameter_expansion_for(val.v), 1, <<>>)
    ELSE <<[k |-> key, v |-> val]>>

RECURSIVE expand_list_instances(_, _, _, _, _)
expand_list_instances(flattened_contexts, key, val, j, acc) ==
    IF j > Len(flattened_contexts) THEN acc
    ELSE expand_list_instances(flattened_contexts, key, val, j + 1,
            Append(acc, DictUpdate(flattened_contexts[j], unpair(key, val))))

RECURSIVE expand_list_vals(_, _, _, _, _)
expand_list_vals(flattened_contexts, key, lst, i, acc) ==
    IF i > Len(lst) THEN acc
    ELSE expand_list_vals(flattened_contexts, key, lst, i + 1,
            expand_list_instances(flattened_contexts, key, lst[i], 1, acc))

expand_parameter_list_into(flattened_contexts, key, lst) ==
    expand_list_vals(flattened_contexts, key, lst, 1, <<>>)

\* range(start, end, step) for step # 0
RECURSIVE PyRange(_, _, _)
PyRange(start, end, step) ==
    IF (step > 0 /\ start < end) \/ (step < 0 /\ start > end)
    THEN <<start>> \o PyRange(start + step, end, step)
    ELSE <<>>

RECURSIVE expand_range_instances(_, _, _, _, _)
expand_range_instances(flattened_contexts, key, n, j, acc) ==
    IF j > Len(flattened_contexts) THEN acc
    ELSE expand_range_instances(flattened_contexts, key, n, j + 1,
            Append(acc, DictSet(flattened_contexts[j], key, PyInt(n))))

RECURSIVE expand_range_vals(_, _, _, _, _)
expand_range_vals(flattened_contexts, key, rng, i, acc) ==
    IF i > Len(rng) THEN acc
    ELSE expand_range_vals(flattened_contexts, key, rng, i + 1,
            expand_range_instances(flattened_contexts, key, rng[i], 1, acc))

\* expand_parameter_range_into without dct.get('step', 1): every range steps by 1
expand_range_ignoring_step(flattened_contexts, key, dct) ==
    expand_range_vals(flattened_contexts, key,
                      PyRange(dct.start, dct.end, 1), 1, <<>>)

expand_parameter_range_into(flattened_contexts, key, dct) ==
    LET step == IF "step" \in DOMAIN dct THEN dct.step ELSE 1
    IN  expand_range_vals(flattened_contexts, key,
                          PyRange(dct.start, dct.end, step), 1, <<>>)

RECURSIVE parse_from(_, _, _)
parse_from(context, i, flattened_contexts) ==
    IF i > Len(context) THEN flattened_contexts
    ELSE LET key == context[i].k
             val == context[i].v
         IN  parse_from(context, i + 1,
               IF val.t = "list"
               THEN expand_parameter_list_into(flattened_contexts, key, val.v)
               ELSE IF val.t = "range"
               THEN expand_parameter_range_into(flattened_contexts, key, val.v)
               ELSE [j \in 1..Len(flattened_contexts) |->
                        DictUpdate(flattened_contexts[j], unpair(key, val))])

\* ContextHelper.parse: the list of flat contexts of a context
parse(context) == parse_from(context, 1, <<<<>>>>)

RECURSIVE merge_inner(_, _, _, _)
merge_inner(instance1, flattened_contexts2, j, acc) ==
    IF j > Len(flattened_contexts2) THEN acc
    ELSE merge_inner(instance1, flattened_contexts2, j + 1,
            Append(acc, DictUpdate(instance1, flattened_contexts2[j])))

RECURSIVE merge_outer(_, _, _, _)
merge_outer(flattened_contexts1, flattened_contexts2, i, acc) ==
    IF i > Len(flattened_contexts1) THEN acc
    ELSE merge_outer(flattened_contexts1, flattened_contexts2, i + 1,
            merge_inner(flattened_contexts1[i], flattened_contexts2, 1, acc))

\* merge with {**instance2, **instance1}: a conflict keeps the first value
merge_keeping_first(flattened_contexts1, flattened_contexts2) ==
    LET n2 == Len(flattened_contexts2)
    IN  [n \in 1..(Len(flattened_contexts1) * n2) |->
            DictUpdate(flattened_contexts2[((n - 1) % n2) + 1],
                       flattened_contexts1[((n - 1) \div n2) + 1])]

\* merge that hands back the first list when the second is empty
merge_or_first(flattened_contexts1, flattened_contexts2) ==
    IF flattened_contexts2 = <<>> THEN flattened_contexts1
    ELSE merge_outer(flattened_contexts1, flattened_contexts2, 1, <<>>)

\* ContextHelper.merge
merge(flattened_contexts1, flattened_contexts2) ==
    merge_outer(flattened_contexts1, flattened_contexts2, 1, <<>>)

\* ------------------------------------------------------------------------
\* Pipeline documents (the parsed input of ScriptOrchestrator.parse)
\* ------------------------------------------------------------------------

Script(guid, context, returns, takes) ==
    [guid |-> guid, path |-> guid, context |-> context,
     returns |-> returns, takes |-> takes]

\* a script whose import path is not its guid
ScriptAt(guid, path, context, returns, takes) ==
    [guid |-> guid, path |-> path, context |-> context,
     returns |-> returns, takes |-> takes]

\* Pipeline._get_block_serials
RECURSIVE UniqueSerials(_, _, _)
UniqueSerials(blocks, b, serials) ==
    IF b > Len(blocks) THEN serials
    ELSE UniqueSerials(blocks, b + 1,
            IF \E k \in 1..Len(serials) : serials[k] = blocks[b].serial
            THEN serials ELSE Append(serials, blocks[b].serial))

RECURSIVE InsertSorted(_, _)
InsertSorted(sorted, x) ==
    IF sorted = <<>> THEN <<x>>
    ELSE IF x < Head(sorted) THEN <<x>> \o sorted
    ELSE <<Head(sorted)>> \o InsertSorted(Tail(sorted), x)

RECURSIVE SortFrom(_, _, _)
SortFrom(seq, k, sorted) ==
    IF k > Len(seq) THEN sorted
    ELSE SortFrom(seq, k + 1, InsertSorted(sorted, seq[k]))

\* list.sort() of integers
Sort(seq) == SortFrom(seq, 1, <<>>)

\* the serials in the order of the document
serials_in_document_order(pl) == UniqueSerials(pl.blocks, 1, <<>>)

\* the serials of the pipeline's blocks, each once, ascending
get_block_serials(pl) == Sort(UniqueSerials(pl.blocks, 1, <<>>))

Block(name, serial, context, scripts) ==
    [name |-> name, serial |-> serial, context |-> context, scripts |-> scripts]

\* Pipeline.__init__: serials is computed once, from the parsed blocks
Pipeline(context, blocks) ==
    LET self == [name |-> "p", version |-> "1", context |-> context,
                 blocks |-> blocks]
    IN  [name |-> self.name, version |-> self.version, context |-> self.context,
         blocks |-> self.blocks, serials |-> get_block_serials(self)]

Entry(key, val) == [k |-> key, v |-> val]

\* two scripts of one block piped pointwise under a pipeline-level list
DocTwoStage ==
    Pipeline(<<Entry(<<"k">>, PyList(<<PyInt(1), PyInt(2)>>))>>,
      <<Block("b0", 0, <<>>,
          <<Script("A", <<>>, "X", None), Script("B", <<>>, "Y", "X")>>)>>)

\* a later block taking the data of every executable of an earlier block
DocFanIn ==
    Pipeline(<<>>,
      <<Block("b0", 0, <<Entry(<<"k">>, PyList(<<PyInt(1), PyInt(2)>>))>>,
          <<Script("A", <<>>, "X", None)>>),
        Block("b1", 1, <<>>, <<Script("B", <<>>, "Y", "X")>>)>>)

\* a script context that overrides the block's list parameter
DocOverride ==
    Pipeline(<<>>,
      <<Block("b0", 0,
          <<Entry(<<"k">>, PyList(<<PyStr(<<"u">>), PyStr(<<"e">>)>>))>>,
          <<Script("A", <<Entry(<<"k">>, PyStr(<<"z">>))>>, "X", None),
            Script("B", <<>>, "Y", "X")>>)>>)

\* the producer's block is listed first but has the higher serial
DocOutOfOrder ==
    Pipeline(<<>>,
      <<Block("b1", 1,
          <<Entry(<<"k">>, PyList(<<PyInt(1), PyInt(2), PyInt(3)>>))>>,
          <<Script("A", <<Entry(<<"k">>, PyInt(0))>>, "X", None)>>),
        Block("b0", 0, <<>>,
          <<Script("B", <<>>, "Y", "X"), Script("D", <<>>, "Z", None)>>)>>)

\* a script whose takes tag is its own returns tag
DocSelfTake ==
    Pipeline(<<>>,
      <<Block("b0", 0, <<>>,
          <<Script("A", <<>>, "W", None), Script("C", <<>>, "V", "W"),
            Script("S", <<>>, "X", "X")>>)>>)

\* a producer and its consumer in one block
DocPipe ==
    Pipeline(<<>>,
      <<Block("b0", 0, <<>>,
          <<Script("A", <<>>, "X", None), Script("B", <<>>, "Y", "X")>>)>>)

\* a takes tag that no script returns
DocUnresolved ==
    Pipeline(<<>>,
      <<Block("b0", 0, <<>>,
          <<Script("A", <<>>, "X", None), Script("B", <<>>, "Y", "Z")>>)>>)

\* two producers of one tag and their consumer in one block
DocBlockFanIn ==
    Pipeline(<<>>,
      <<Block("b0", 0, <<>>,
          <<Script("A1", <<>>, "X", None), Script("A2", <<>>, "X", None),
            Script("B", <<>>, "Y", "X")>>)>>)

\* a paired key, a range, and two blocks of the same serial
DocPairedRange ==
    Pipeline(<<Entry(<<"h", ",", " ", "p">>, PyStr(<<"a", ",", "1">>))>>,
      <<Block("b0", 0, <<Entry(<<"n">>, Range(0, 2))>>,
          <<Script("A", <<>>, "X", None)>>),
        Block("b1", 0, <<>>, <<Script("B", <<>>, "Y", "X")>>)>>)

\* a chain over four serials
DocChain ==
    Pipeline(<<>>,
      <<Block("b0", 0, <<>>, <<Script("T", <<>>, "X", None)>>),
        Block("b1", 1, <<>>, <<Script("U", <<>>, "Y", "X")>>),
        Block("b2", 2, <<>>, <<Script("E", <<>>, "Z", "Y")>>),
        Block("b3", 3, <<>>, <<Script("F", <<>>, "V", "Z")>>)>>)

\* one producer with two consumers in the same block
DocOneToMany ==
    Pipeline(<<>>,
      <<Block("b0", 0, <<>>,
          <<Script("A", <<>>, "X", None), Script("B", <<>>, "Y", "X"),
            Script("C", <<>>, "Z", "X")>>)>>)

\* a script whose run raises beside one that does not, and a later serial
DocRaise ==
    Pipeline(<<>>,
      <<Block("b0", 0, <<>>,
          <<Script("R", <<>>, "W", None), Script("G", <<>>, "X", None)>>),
        Block("b1", 1, <<>>, <<Script("H", <<>>, "Y", "X")>>)>>)

\* names with the separator of the canonical rendering in them
DocSlashNames ==
    Pipeline(<<>>,
      <<Block("a/b", 0, <<>>, <<ScriptAt("c", "m", <<>>, "X", None)>>),
        Block("a", 0, <<>>, <<ScriptAt("b/c", "m", <<>>, "Y", None)>>)>>)

\* ------------------------------------------------------------------------
\* The definitions preprocessor and ScriptOrchestrator.parse
\* ------------------------------------------------------------------------

\* the value that refers an entry to the definitions of the document
see_definitions == PyStr(<<"$see definitions">>)

is_definition(key, val) == val = see_definitions

\* del input_context[key]
DictDel(d, k) == SelectSeq(d, LAMBDA en : en.k # k)

\* definitions[key], for a key of the dict
DictGet(d, k) == d[CHOOSE i \in 1..Len(d) : d[i].k = k].v

\* the entry is deleted and then set again: the key goes to the end of the
\* dict (a key that is not defined ends the program and is no input here)
unpack_existing_definition(input_context, key, definitions) ==
    DictSet(DictDel(input_context, key), key, DictGet(definitions, key))

RECURSIVE unpack_keys(_, _, _, _)
unpack_keys(input_context, keys_to_unpack, i, definitions) ==
    IF i > Len(keys_to_unpack) THEN input_context
    ELSE unpack_keys(
            unpack_existing_definition(input_context, keys_to_unpack[i].k, definitions),
            keys_to_unpack, i + 1, definitions)

\* the keys that hold the sentinel are collected, then unpacked in turn
unpack_all_definitions_in(input_context, definitions) ==
    unpack_keys(input_context,
                SelectSeq(input_context, LAMBDA en : is_definition(en.k, en.v)),
                1, definitions)

\* every 'context' of the document is unpacked: the pipeline's, each block's
\* and each script's
preprocess_definitions(input_json) ==
    LET defs == input_json.definitions
        in_script(sc) ==
            [sc EXCEPT !.context = unpack_all_definitions_in(@, defs)]
        in_block(bl) ==
            [bl EXCEPT !.context = unpack_all_definitions_in(@, defs),
                       !.scripts = [i \in 1..Len(@) |-> in_script(@[i])]]
    IN  [input_json EXCEPT
            !.context = unpack_all_definitions_in(@, defs),
            !.blocks = [i \in 1..Len(@) |-> in_block(@[i])]]

\* ScriptOrchestrator.parse(data): the definitions are unpacked and the
\* Pipeline is built from name, version, context and blocks
orchestrator_parse(data) ==
    LET unpacked == preprocess_definitions(data)
    IN  [Pipeline(unpacked.context, unpacked.blocks)
            EXCEPT !.name = unpacked.name, !.version = unpacked.version]

\* a document with definitions: the entry that refers to them comes before
\* another list parameter
DataDefinitions ==
    [name |-> "p", version |-> "1",
     definitions |-> <<Entry(<<"a">>, PyList(<<PyInt(10), PyInt(20)>>))>>,
     context |-> <<Entry(<<"a">>, see_definitions),
                   Entry(<<"b">>, PyList(<<PyInt(1), PyInt(2)>>))>>,
     blocks |-> <<Block("b0", 0, <<>>, <<Script("A", <<>>, "X", None)>>)>>]

DocDefinitions == orchestrator_parse(DataDefinitions)

\* the scripts of the documents whose run(params, data) raises an exception
ScriptsThatRaise == {"R"}

Documents ==
    <<DocPipe, DocTwoStage, DocFanIn, DocOverride, DocOutOfOrder, DocSelfTake,
      DocUnresolved, DocBlockFanIn, DocPairedRange, DocChain, DocOneToMany,
      DocRaise, DocSlashNames, DocDefinitions>>

\* ------------------------------------------------------------------------
\* State
\* ------------------------------------------------------------------------

VARIABLES
    pipeline,       \* self.pipeline: the parsed document
    phase,          \* "queue_tasks", "planned", "raised", "run", "finished", "aborted",
                    \* "cleaned", "clean_raised", "purged", "purge_raised"
    iteration,      \* position of queue_tasks in its nested loops
    executable_list,                   \* self.executable_list
    n_pipes_in,                        \* Executable.n_pipes_in, per executable
    outgoing_pipes,                    \* Executable.outgoing_pipes, per executable
    pipeline_level_executable_index,   \* returns tag -> executables, whole plan
    block_level_executable_index,      \* returns tag -> executables, this block context
    admitted_from,  \* history: the loop iteration that admitted each executable
    ingest_dirs,    \* the data ingest directories that exist (by hash)
    ingest_files,   \* the files in the ingest directories
    stale_dirs,     \* history: executables whose ingest directory held old files
    tmp_directory_exists,   \* os.path.exists(self.tmp_directory)
    given,          \* the run configuration of run()
    serial_i,       \* position of run() in serials_to_run
    next_task,      \* position of the pool in the task list of p.map
    pc,             \* per executable: where its worker (_run) is
    wait_i,         \* per executable: the counter i of the wait loop of _run
    sending,        \* per executable: the pipe executable.send is at
    cache_in,       \* the cache<hash>.in files (by hash): <<>> or <<packet>>
    cache_out,      \* the cache<hash>.out files (by hash): <<>> or <<text>>
    input_json,     \* per executable: the packet handed to the runner
    resumed,        \* history: executables whose in-file held a packet at start
    call            \* a call of a ContextHelper function: [fn, args, made, result]

plan_vars ==
    <<pipeline, phase, iteration, executable_list, n_pipes_in, outgoing_pipes,
      pipeline_level_executable_index, block_level_executable_index,
      admitted_from, ingest_dirs, ingest_files, stale_dirs,
      tmp_directory_exists>>

plan_vars_but_phase ==
    <<pipeline, iteration, executable_list, n_pipes_in, outgoing_pipes,
      pipeline_level_executable_index, block_level_executable_index,
      admitted_from, ingest_dirs, ingest_files, stale_dirs,
      tmp_directory_exists>>

plan_vars_but_files ==
    <<pipeline, phase, iteration, executable_list, n_pipes_in, outgoing_pipes,
      pipeline_level_executable_index, block_level_executable_index,
      admitted_from, ingest_dirs, stale_dirs, tmp_directory_exists>>

run_vars ==
    <<given, serial_i, next_task, pc, wait_i, sending, cache_in, cache_out,
      input_json, resumed>>

vars == <<plan_vars, run_vars, call>>

\* ------------------------------------------------------------------------
\* Executable and Pipe
\* ------------------------------------------------------------------------

\* Executable.__str__: the canonical rendering
\* f"{pipeline_name}({version})/{block_name}/{script_guid}:{script_path}\n"
\* followed by json.dumps(context_instance, indent=2), which lists the
\* items of the dict in their order
ExecutableStr(context_instance, script_guid, script_path, block_name, version, pipeline_name) ==
    [line |-> pipeline_name \o "(" \o version \o ")/" \o block_name \o "/"
                \o script_guid \o ":" \o script_path,
     json |-> context_instance]

\* Executable.calculate_hash: SHA-1 of the rendering (collision-free)
calculate_hash(rendering) == [sha1 |-> rendering]

\* Executable.__init__ (the counters it starts are kept in n_pipes_in and
\* outgoing_pipes)
Executable(context_instance, script_guid, script_path, block_name, block_serial, version, pipeline_name) ==
    [context_instance |-> context_instance,
     script_guid |-> script_guid,
     script_path |-> script_path,
     block_name |-> block_name,
     block_serial |-> block_serial,
     version |-> version,
     pipeline_name |-> pipeline_name,
     hash |-> calculate_hash(ExecutableStr(context_instance, script_guid,
                script_path, block_name, version, pipeline_name))]

\* Executable.__eq__
ExecutableEq(self, other) ==
    /\ DictEq(self.context_instance, other.context_instance)
    /\ self.block_name = other.block_name
    /\ self.script_guid = other.script_guid

\* membership by object identity: a newly constructed candidate is never
\* one of the objects of the list
ContainsByIdentity(lst, executable) == FALSE

\* `executable in lst`
Contains(lst, executable) ==
    \E i \in 1..Len(lst) : ExecutableEq(lst[i], executable)

\* the pipe counts itself on its upstream end
connect_counting_upstream(links, self, executable) ==
    [n_pipes_in |-> [links.n_pipes_in EXCEPT ![self] = @ + 1],
     outgoing_pipes |->
        [links.outgoing_pipes EXCEPT
            ![self] = Append(@, [pipe_from_obj |-> self, to_obj |-> executable])]]

\* Pipe.__init__ and Executable.connect_upstream_of, on the pair
\* links = [n_pipes_in, outgoing_pipes]: the pipe counts itself on its
\* downstream end and is appended to the outgoing pipes of its upstream end
connect_upstream_of(links, self, executable) ==
    [n_pipes_in |-> [links.n_pipes_in EXCEPT ![executable] = @ + 1],
     outgoing_pipes |->
        [links.outgoing_pipes EXCEPT
            ![self] = Append(@, [pipe_from_obj |-> self, to_obj |-> executable])]]

\* ------------------------------------------------------------------------
\* ScriptOrchestrator.queue_tasks
\* ------------------------------------------------------------------------

EmptyIndex == [tag \in {} |-> <<>>]

\* index[tag].append(executable), creating the list when the tag is new
IndexAppend(index, tag, executable) ==
    [t \in DOMAIN index \cup {tag} |->
        IF t = tag
        THEN (IF tag \in DOMAIN index THEN Append(index[tag], executable)
              ELSE <<executable>>)
        ELSE index[t]]

\* the candidates of one script under one block-level context instance
ScriptIterations(pl, bi, ci, block_level_context_instance, si) ==
    LET script == pl.blocks[bi].scripts[si]
        script_level_flattened_contexts ==
            merge(<<block_level_context_instance>>, parse(script.context))
    IN  [j \in 1..Len(script_level_flattened_contexts) |->
            [bi |-> bi, ci |-> ci, si |-> si,
             context_instance |-> script_level_flattened_contexts[j]]]

RECURSIVE BlockContextIterations(_, _, _, _, _)
BlockContextIterations(pl, bi, ci, block_level_context_instance, si) ==
    IF si > Len(pl.blocks[bi].scripts) THEN <<>>
    ELSE ScriptIterations(pl, bi, ci, block_level_context_instance, si)
         \o BlockContextIterations(pl, bi, ci, block_level_context_instance, si + 1)

RECURSIVE BlockIterations(_, _, _, _)
BlockIterations(pl, bi, block_level_flattened_contexts, ci) ==
    IF ci > Len(block_level_flattened_contexts) THEN <<>>
    ELSE BlockContextIterations(pl, bi, ci, block_level_flattened_contexts[ci], 1)
         \o BlockIterations(pl, bi, block_level_flattened_contexts, ci + 1)

RECURSIVE PipelineIterations(_, _)
PipelineIterations(pl, bi) ==
    IF bi > Len(pl.blocks) THEN <<>>
    ELSE BlockIterations(pl, bi,
            merge(parse(pl.context), parse(pl.blocks[bi].context)), 1)
         \o PipelineIterations(pl, bi + 1)

\* the executions of the innermost loop body of queue_tasks, in loop order
Iterations(pl) == PipelineIterations(pl, 1)

\* a lookup that yields no upstreams for a tag in neither index
UpstreamsOrNone(takes, block_index, pipeline_index) ==
    IF takes \in DOMAIN block_index
    THEN [raise |-> FALSE, list |-> block_index[takes]]
    ELSE IF takes \in DOMAIN pipeline_index
    THEN [raise |-> FALSE, list |-> pipeline_index[takes]]
    ELSE [raise |-> FALSE, list |-> <<>>]

\* a lookup that adds the producers of the whole plan to those of the block
\* context
UpstreamsOfBoth(takes, block_index, pipeline_index) ==
    IF takes \in DOMAIN pipeline_index
    THEN [raise |-> FALSE, list |-> pipeline_index[takes]]
    ELSE [raise |-> TRUE, list |-> <<>>]

\* the executables a new executable is connected downstream of, or a
\* KeyError when its takes tag is in neither index
UpstreamsOf(takes, block_index, pipeline_index) ==
    IF takes \in DOMAIN block_index
    THEN [raise |-> FALSE, list |-> block_index[takes]]
    ELSE IF takes \in DOMAIN pipeline_index
    THEN [raise |-> FALSE, list |-> pipeline_index[takes]]
    ELSE [raise |-> TRUE, list |-> <<>>]

RECURSIVE ConnectAll(_, _, _, _)
ConnectAll(links, upstream_executables, i, executable) ==
    IF i > Len(upstream_executables) THEN links
    ELSE ConnectAll(connect_upstream_of(links, upstream_executables[i], executable),
                    upstream_executables, i + 1, executable)

\* the text an earlier run left in a file of upstream hash `by`
PriorText(by) == [by |-> by, run |-> "prior", written |-> TRUE]

\* the Executable constructed by the k-th execution of the loop body
\* (lines 671-680)
CandidateAt(k) ==
    LET it == Iterations(pipeline)[k]
        block == pipeline.blocks[it.bi]
        script == block.scripts[it.si]
    IN  Executable(it.context_instance, script.guid, script.path,
                   block.name, block.serial, pipeline.version, pipeline.name)

\* one execution of the innermost loop body of queue_tasks (lines 671-698),
\* with the reset of the block-level index when a new block-level context
\* instance begins (line 665)
queue_tasks ==
    /\ phase = "queue_tasks"
    /\ iteration <= Len(Iterations(pipeline))
    /\ LET its == Iterations(pipeline)
           it == its[iteration]
           block == pipeline.blocks[it.bi]
           script == block.scripts[it.si]
           executable == CandidateAt(iteration)
           fresh_index ==
               \/ iteration = 1
               \/ its[iteration - 1].bi # it.bi
               \/ its[iteration - 1].ci # it.ci
           block_index0 ==
               IF fresh_index THEN EmptyIndex ELSE block_level_executable_index
           me == Len(executable_list) + 1
           pipeline_index1 ==
               IndexAppend(pipeline_level_executable_index, script.returns, me)
           block_index1 == IndexAppend(block_index0, script.returns, me)
           ups == IF Truthy(script.takes)
                  THEN UpstreamsOf(script.takes, block_index1, pipeline_index1)
                  ELSE [raise |-> FALSE, list |-> <<>>]
           links == ConnectAll(
                       [n_pipes_in |-> Append(n_pipes_in, 0),
                        outgoing_pipes |-> Append(outgoing_pipes, <<>>)],
                       ups.list, 1, me)
           last == iteration = Len(its)
       IN  IF Contains(executable_list, executable)
           THEN /\ block_level_executable_index' = block_index0
                /\ ingest_dirs' = ingest_dirs \cup {executable.hash}
                /\ phase' = IF last THEN "planned" ELSE "queue_tasks"
                /\ UNCHANGED <<executable_list, n_pipes_in, outgoing_pipes,
                               pipeline_level_executable_index, admitted_from,
                               ingest_files, stale_dirs>>
           ELSE /\ executable_list' = Append(executable_list, executable)
                /\ admitted_from' = Append(admitted_from,
                        [bi |-> it.bi, ci |-> it.ci, si |-> it.si,
                         takes |-> script.takes, returns |-> script.returns])
                /\ pipeline_level_executable_index' = pipeline_index1
                /\ block_level_executable_index' = block_index1
                /\ n_pipes_in' = links.n_pipes_in
                /\ outgoing_pipes' = links.outgoing_pipes
                /\ ingest_dirs' = ingest_dirs \cup {executable.hash}
                /\ \E old \in IF executable.hash \in ingest_dirs \/ ups.list = <<>>
                              THEN {FALSE} ELSE BOOLEAN :
                       IF old
                       THEN /\ stale_dirs' = stale_dirs \cup {me}
                            /\ ingest_files' = ingest_files \cup
                                 {[dir |-> executable.hash,
                                   name |-> executable_list'[ups.list[i]].hash,
                                   text |-> PriorText(executable_list'[ups.list[i]].hash)]
                                  : i \in 1..Len(ups.list)}
                       ELSE UNCHANGED <<stale_dirs, ingest_files>>
                /\ phase' = IF ups.raise THEN "raised"
                            ELSE IF last THEN "planned" ELSE "queue_tasks"
    /\ iteration' = iteration + 1
    /\ UNCHANGED <<pipeline, tmp_directory_exists, run_vars>>
    /\ UNCHANGED call

\* ------------------------------------------------------------------------
\* The scratch files of a worker
\* ------------------------------------------------------------------------

\* the executables with a pipe into executable e
UpstreamSet(e) ==
    {u \in 1..Len(executable_list) :
        \E k \in 1..Len(outgoing_pipes[u]) : outgoing_pipes[u][k].to_obj = e}

\* os.listdir(executable.data_ingest_directory), with each file's content
ListDir(e) == {f \in ingest_files : f.dir = executable_list[e].hash}

\* the text the external runner writes for executable e in this run
Output(e) == [by |-> executable_list[e].hash, run |-> "this", written |-> TRUE]

\* a file that has been opened for writing and not written yet reads as ""
EmptyText(by) == [by |-> by, run |-> "this", written |-> FALSE]

\* the packet an earlier, complete run of this plan left in the in-file of e
PriorPacket(e) ==
    [script_path |-> executable_list[e].script_path,
     params |-> executable_list[e].context_instance,
     run |-> "prior",
     data |-> {[name |-> executable_list[u].hash,
                text |-> PriorText(executable_list[u].hash)] : u \in UpstreamSet(e)}]

\* cache[hash] = content, creating the file when it is new
FileWrite(cache, hash, content) ==
    [h \in DOMAIN cache \cup {hash} |-> IF h = hash THEN content ELSE cache[h]]

\* the file Pipe.transfer writes: <ingest directory of to_obj>/<hash of
\* pipe_from_obj>
TransferFile(pipe, text) ==
    [dir |-> executable_list[pipe.to_obj].hash,
     name |-> executable_list[pipe.pipe_from_obj].hash,
     text |-> text]

\* the ingest files after `file` is created or replaced
PutFile(files, file) ==
    {f \in files : ~(f.dir = file.dir /\ f.name = file.name)} \cup {file}

\* a wait that is content with one file less
is_waiting_off_by_one(e, in_file, listing) ==
    IF Len(in_file) # 0 THEN FALSE
    ELSE n_pipes_in[e] > Cardinality(listing) + 1

\* Executable.is_waiting_for_upstream: os.path.getsize of the in-file and
\* the number of files in the ingest directory
is_waiting_for_upstream(e, in_file, listing) ==
    IF Len(in_file) # 0 THEN FALSE
    ELSE n_pipes_in[e] > Cardinality(listing)

\* a write_data_pipe_file that writes the packet it built in every case
write_packet_always(e, in_file, listing) ==
    LET pipe_json == [script_path |-> executable_list[e].script_path,
                      params |-> executable_list[e].context_instance,
                      run |-> "this",
                      data |-> {[name |-> f.name, text |-> f.text] : f \in listing}]
    IN  [in_file |-> <<pipe_json>>, pipe_json |-> pipe_json]

\* write_data_pipe_file: the packet built from the ingest directory, and
\* what the in-file holds afterwards
write_data_pipe_file(e, in_file, listing) ==
    LET received_packages == {[name |-> f.name, text |-> f.text] : f \in listing}
        pipe_json == [script_path |-> executable_list[e].script_path,
                      params |-> executable_list[e].context_instance,
                      run |-> "this",
                      data |-> received_packages]
    IN  IF received_packages # {} \/ Len(in_file) = 0
        THEN [in_file |-> <<pipe_json>>, pipe_json |-> pipe_json]
        ELSE [in_file |-> in_file, pipe_json |-> in_file[1]]

\* ------------------------------------------------------------------------
\* ScriptOrchestrator.run
\* ------------------------------------------------------------------------

serials_to_run ==
    SelectSeq(pipeline.serials, LAMBDA s : s >= given.from)

\* the executables of one serial, in plan order
same_level_executables(serial) ==
    SelectSeq([e \in 1..Len(executable_list) |-> e],
              LAMBDA e : executable_list[e].block_serial = serial)

\* the task list p.map is working on
CurrentTasks ==
    IF serial_i <= Len(serials_to_run)
    THEN same_level_executables(serials_to_run[serial_i])
    ELSE <<>>

Active == {e \in 1..Len(pc) : pc[e] \in {"waiting", "running", "sending"}}

Finished(e) == pc[e] \in {"done", "failed"}

\* the call of _run for e has ended, by a return or by an exception of the
\* external runner
WorkerEnded(e) == pc[e] \in {"done", "failed", "raised"}

\* a task of the list has ended with an exception, which p.map re-raises
SomeTaskRaised(tasks) == \E k \in 1..Len(tasks) : pc[tasks[k]] = "raised"

\* a map that returns once every task has been handed to a worker
MapReturnsEarly(tasks, next) == next > Len(tasks)

\* p.map returns when every task of the list has been run to its end
MapReturns(tasks, next) ==
    /\ next > Len(tasks)
    /\ \A k \in 1..Len(tasks) : WorkerEnded(tasks[k])

\* run(given): the configuration is read and the pool is created
run ==
    /\ phase = "planned"
    /\ \E n \in 0..MaxTries, p \in 1..MaxProcesses,
          f \in {pipeline.blocks[b].serial : b \in 1..Len(pipeline.blocks)} :
          given' = [n_times_before_timeout |-> n, max_processes |-> p, from |-> f]
    /\ phase' = "run"
    /\ serial_i' = 1
    /\ next_task' = 1
    /\ pc' = [e \in 1..Len(executable_list) |-> "queued"]
    /\ wait_i' = [e \in 1..Len(executable_list) |-> 0]
    /\ sending' = [e \in 1..Len(executable_list) |-> 0]
    /\ input_json' = [e \in 1..Len(executable_list) |-> <<>>]
    /\ UNCHANGED <<plan_vars_but_phase, cache_in, cache_out, resumed>>
    /\ UNCHANGED call

\* a free pool worker takes the next task of the list and starts _run on it:
\* FilePipe.__init__ creates the in-file unless it exists and empties the
\* out-file; i = 0
Dispatch(e) ==
    /\ phase = "run"
    /\ next_task <= Len(CurrentTasks)
    /\ e = CurrentTasks[next_task]
    /\ Cardinality(Active) < given.max_processes
    /\ LET hash == executable_list[e].hash
       IN  /\ IF hash \in DOMAIN cache_in
              THEN UNCHANGED <<cache_in, resumed>>
              ELSE \E exists \in BOOLEAN :
                      /\ cache_in' = FileWrite(cache_in, hash,
                            IF exists THEN <<PriorPacket(e)>> ELSE <<>>)
                      /\ resumed' = IF exists THEN resumed \cup {e} ELSE resumed
           /\ cache_out' = FileWrite(cache_out, hash, <<>>)
    /\ next_task' = next_task + 1
    /\ pc' = [pc EXCEPT ![e] = "waiting"]
    /\ wait_i' = [wait_i EXCEPT ![e] = 0]
    /\ UNCHANGED <<plan_vars, given, serial_i, sending, input_json>>
    /\ UNCHANGED call

\* one pass of the wait loop (i < n_times_before_timeout): either the
\* executable is still waiting and the worker sleeps, or the loop is left,
\* the packet is written and the external runner is invoked
Wait(e) ==
    /\ phase = "run"
    /\ pc[e] = "waiting"
    /\ wait_i[e] < given.n_times_before_timeout
    /\ LET hash == executable_list[e].hash
       IN  IF is_waiting_for_upstream(e, cache_in[hash], ListDir(e))
           THEN /\ wait_i' = [wait_i EXCEPT ![e] = @ + 1]
                /\ UNCHANGED <<pc, cache_in, input_json>>
           ELSE LET written == write_data_pipe_file(e, cache_in[hash], ListDir(e))
                IN  /\ cache_in' = FileWrite(cache_in, hash, written.in_file)
                    /\ input_json' = [input_json EXCEPT ![e] = <<written.pipe_json>>]
                    /\ pc' = [pc EXCEPT ![e] = "running"]
                    /\ UNCHANGED wait_i
    /\ UNCHANGED <<plan_vars, given, serial_i, next_task, sending, cache_out, resumed>>
    /\ UNCHANGED call

\* a timeout that ends the whole run
TimeoutAborts(e) ==
    /\ phase = "run"
    /\ pc[e] = "waiting"
    /\ wait_i[e] = given.n_times_before_timeout
    /\ pc' = [pc EXCEPT ![e] = "failed"]
    /\ phase' = "aborted"
    /\ UNCHANGED <<plan_vars_but_phase, given, serial_i, next_task, wait_i, sending,
                   cache_in, cache_out, input_json, resumed>>
    /\ UNCHANGED call

\* a timeout that reports the failure and still sends (empty) data on
TimeoutSendsEmpty(e) ==
    /\ phase = "run"
    /\ pc[e] = "waiting"
    /\ wait_i[e] = given.n_times_before_timeout
    /\ pc' = [pc EXCEPT ![e] = "failed"]
    /\ LET sent == {TransferFile(outgoing_pipes[e][k],
                                 EmptyText(executable_list[e].hash))
                     : k \in 1..Len(outgoing_pipes[e])}
       IN  ingest_files' =
              {f \in ingest_files :
                  ~\E g \in sent : g.dir = f.dir /\ g.name = f.name} \cup sent
    /\ UNCHANGED <<plan_vars_but_files, given, serial_i, next_task, wait_i,
                   sending, cache_in, cache_out, input_json, resumed>>
    /\ UNCHANGED call

\* a timeout that is declared after the first sample that finds the
\* executable waiting
TimeoutAfterOneSample(e) ==
    /\ phase = "run"
    /\ pc[e] = "waiting"
    /\ wait_i[e] >= 1 \/ wait_i[e] = given.n_times_before_timeout
    /\ pc' = [pc EXCEPT ![e] = "failed"]
    /\ UNCHANGED <<plan_vars, given, serial_i, next_task, wait_i, sending, cache_in,
                   cache_out, input_json, resumed>>
    /\ UNCHANGED call

\* a timeout that puts the task back among those not yet handed out
TimeoutRequeues(e) ==
    /\ phase = "run"
    /\ pc[e] = "waiting"
    /\ wait_i[e] = given.n_times_before_timeout
    /\ pc' = [pc EXCEPT ![e] = "queued"]
    /\ UNCHANGED <<plan_vars, given, serial_i, next_task, wait_i, sending, cache_in,
                   cache_out, input_json, resumed>>
    /\ UNCHANGED call

\* the loop ended with i = n_times_before_timeout: "failed script:" is
\* printed and _run returns
Timeout(e) ==
    /\ phase = "run"
    /\ pc[e] = "waiting"
    /\ wait_i[e] = given.n_times_before_timeout
    /\ pc' = [pc EXCEPT ![e] = "failed"]
    /\ UNCHANGED <<plan_vars, given, serial_i, next_task, wait_i, sending, cache_in,
                   cache_out, input_json, resumed>>
    /\ UNCHANGED call

\* run_handler.run returns with the out-file written; the worker reads it
\* and enters executable.send
RunnerReturns(e) ==
    /\ phase = "run"
    /\ pc[e] = "running"
    /\ executable_list[e].script_path \notin ScriptsThatRaise
    /\ cache_out' = FileWrite(cache_out, executable_list[e].hash, <<Output(e)>>)
    /\ IF Len(outgoing_pipes[e]) = 0
       THEN /\ pc' = [pc EXCEPT ![e] = "done"]
            /\ UNCHANGED sending
       ELSE /\ pc' = [pc EXCEPT ![e] = "sending"]
            /\ sending' = [sending EXCEPT ![e] = 1]
    /\ UNCHANGED <<plan_vars, given, serial_i, next_task, wait_i, cache_in,
                   input_json, resumed>>
    /\ UNCHANGED call

\* run_handler.run raises (the script's run does): the exception leaves _run before the out-file is
\* read and before executable.send
RunnerRaises(e) ==
    /\ phase = "run"
    /\ pc[e] = "running"
    /\ executable_list[e].script_path \in ScriptsThatRaise
    /\ pc' = [pc EXCEPT ![e] = "raised"]
    /\ UNCHANGED <<plan_vars, given, serial_i, next_task, wait_i, sending, cache_in,
                   cache_out, input_json, resumed>>
    /\ UNCHANGED call

TransferIsOpen(e) ==
    LET pipe == outgoing_pipes[e][sending[e]]
    IN  TransferFile(pipe, EmptyText(executable_list[e].hash)) \in ingest_files

\* Pipe.transfer, open(..., 'w'): the file exists and is empty
TransferOpen(e) ==
    /\ phase = "run"
    /\ pc[e] = "sending"
    /\ ~TransferIsOpen(e)
    /\ ingest_files' = PutFile(ingest_files,
            TransferFile(outgoing_pipes[e][sending[e]],
                         EmptyText(executable_list[e].hash)))
    /\ UNCHANGED <<plan_vars_but_files, run_vars>>
    /\ UNCHANGED call

\* Pipe.transfer, f.write(data) and close: the file holds the data; send goes
\* on to the next pipe, or _run returns
TransferWrite(e) ==
    /\ phase = "run"
    /\ pc[e] = "sending"
    /\ TransferIsOpen(e)
    /\ ingest_files' = PutFile(ingest_files,
            TransferFile(outgoing_pipes[e][sending[e]], cache_out[executable_list[e].hash][1]))
    /\ IF sending[e] = Len(outgoing_pipes[e])
       THEN /\ pc' = [pc EXCEPT ![e] = "done"]
            /\ UNCHANGED sending
       ELSE /\ sending' = [sending EXCEPT ![e] = @ + 1]
            /\ UNCHANGED pc
    /\ UNCHANGED <<plan_vars_but_files, given, serial_i, next_task, wait_i, cache_in,
                   cache_out, input_json, resumed>>
    /\ UNCHANGED call

\* p.map has returned: run goes on to the next serial, or leaves the pool
\* and returns
NextSerial ==
    /\ phase = "run"
    /\ serial_i <= Len(serials_to_run)
    /\ MapReturns(CurrentTasks, next_task)
    /\ ~SomeTaskRaised(CurrentTasks)
    /\ serial_i' = serial_i + 1
    /\ next_task' = 1
    /\ phase' = IF serial_i = Len(serials_to_run) THEN "finished" ELSE "run"
    /\ UNCHANGED <<plan_vars_but_phase, given, pc, wait_i, sending, cache_in,
                   cache_out, input_json, resumed>>
    /\ UNCHANGED call

\* every task of the list has ended and one of them with an exception:
\* p.map raises it in run, which leaves the pool and the loop over the
\* serials; no line of run catches it
MapRaises ==
    /\ phase = "run"
    /\ serial_i <= Len(serials_to_run)
    /\ MapReturns(CurrentTasks, next_task)
    /\ SomeTaskRaised(CurrentTasks)
    /\ phase' = "aborted"
    /\ UNCHANGED <<plan_vars_but_phase, run_vars>>
    /\ UNCHANGED call

\* ------------------------------------------------------------------------
\* ScriptOrchestrator.clean and purge
\* ------------------------------------------------------------------------

\* the loop of clean from executable_list[i] on: Executable.clean removes the
\* ingest directory with shutil.rmtree, which raises FileNotFoundError when
\* the directory is not there
RECURSIVE CleanFrom(_, _)
CleanFrom(dirs, i) ==
    IF i > Len(executable_list) THEN [raise |-> FALSE, dirs |-> dirs]
    ELSE IF executable_list[i].hash \notin dirs
    THEN [raise |-> TRUE, dirs |-> dirs]
    ELSE CleanFrom(dirs \ {executable_list[i].hash}, i + 1)

\* so.clean(), called when run has returned (begin.py line 40) and possibly
\* once more
clean ==
    /\ phase \in {"finished", "cleaned"}
    /\ LET cleaned == CleanFrom(ingest_dirs, 1)
       IN  /\ ingest_dirs' = cleaned.dirs
           /\ ingest_files' = {f \in ingest_files : f.dir \in cleaned.dirs}
           /\ phase' = IF cleaned.raise THEN "clean_raised" ELSE "cleaned"
    /\ UNCHANGED <<pipeline, iteration, executable_list, n_pipes_in, outgoing_pipes,
                   pipeline_level_executable_index, block_level_executable_index,
                   admitted_from, stale_dirs, tmp_directory_exists, run_vars>>
    /\ UNCHANGED call

\* so.purge(): shutil.rmtree(self.tmp_directory), which raises
\* FileNotFoundError when the scratch directory is not there
purge ==
    /\ phase \in {"cleaned", "purged"}
    /\ IF tmp_directory_exists
       THEN /\ tmp_directory_exists' = FALSE
            /\ ingest_dirs' = {}
            /\ ingest_files' = {}
            /\ cache_in' = EmptyIndex
            /\ cache_out' = EmptyIndex
            /\ phase' = "purged"
       ELSE /\ phase' = "purge_raised"
            /\ UNCHANGED <<tmp_directory_exists, ingest_dirs, ingest_files,
                           cache_in, cache_out>>
    /\ UNCHANGED <<pipeline, iteration, executable_list, n_pipes_in, outgoing_pipes,
                   pipeline_level_executable_index, block_level_executable_index,
                   admitted_from, stale_dirs, given, serial_i, next_task, pc,
                   wait_i, sending, input_json, resumed>>
    /\ UNCHANGED call

\* no ContextHelper function is being called on its own
NoCall == [fn |-> "none", args |-> <<>>, made |-> FALSE, result |-> <<>>]

\* ScriptOrchestrator.__init__: nothing is planned, nothing has run; the
\* scratch directory exists
Constructed ==
    /\ iteration = 1
    /\ executable_list = <<>>
    /\ n_pipes_in = <<>>
    /\ outgoing_pipes = <<>>
    /\ pipeline_level_executable_index = EmptyIndex
    /\ block_level_executable_index = EmptyIndex
    /\ admitted_from = <<>>
    /\ ingest_dirs = {}
    /\ ingest_files = {}
    /\ stale_dirs = {}
    /\ tmp_directory_exists = TRUE
    /\ given = [n_times_before_timeout |-> 0, max_processes |-> 1, from |-> 0]
    /\ serial_i = 1
    /\ next_task = 1
    /\ pc = <<>>
    /\ wait_i = <<>>
    /\ sending = <<>>
    /\ cache_in = EmptyIndex
    /\ cache_out = EmptyIndex
    /\ input_json = <<>>
    /\ resumed = {}

\* an orchestrator that has read one of the documents
Init ==
    /\ \E d \in 1..Len(Documents) : pipeline = Documents[d]
    /\ phase = "queue_tasks"
    /\ Constructed
    /\ call = NoCall

Next ==
    \/ queue_tasks
    \/ run
    \/ \E e \in 1..Len(executable_list) : Dispatch(e)
    \/ \E e \in 1..Len(executable_list) : Wait(e)
    \/ \E e \in 1..Len(executable_list) : Timeout(e)
    \/ \E e \in 1..Len(executable_list) : RunnerReturns(e)
    \/ \E e \in 1..Len(executable_list) : RunnerRaises(e)
    \/ \E e \in 1..Len(executable_list) : TransferOpen(e)
    \/ \E e \in 1..Len(executable_list) : TransferWrite(e)
    \/ NextSerial
    \/ MapRaises
    \/ clean
    \/ purge

Spec == Init /\ [][Next]_vars

\* the processes keep running: the pool hands a task to a free worker, a
\* worker in its wait loop goes on to the next pass or leaves the loop
\* (time.sleep returns), a runner that does not raise returns, a transfer
\* is carried out, and run goes on when p.map has returned
WorkersRun ==
    \/ \E e \in 1..Len(executable_list) :
          \/ Dispatch(e) \/ Wait(e) \/ Timeout(e)
          \/ RunnerReturns(e) \/ TransferOpen(e) \/ TransferWrite(e)
    \/ NextSerial

FairSpec == Spec /\ WF_vars(WorkersRun)

\* ------------------------------------------------------------------------
\* Calls of the ContextHelper functions on their own
\* ------------------------------------------------------------------------

\* longest context (number of entries) given to parse
MaxContextLen == 2

\* longest list of flat contexts given to merge
MaxListLen == 2

\* the sequences over S of length <= n
SeqsUpTo(S, n) == UNION {[1..k -> S] : k \in 0..n}

ContextKeys == {<<"a">>, <<"b">>, <<"a", ",", "b">>}

ScalarValues == {PyInt(7), PyStr(<<"x", ",", "y">>)}

ListValues ==
    {PyList(<<>>),
     PyList(<<PyStr(<<"x", ",", "y">>), PyStr(<<"z">>)>>),
     PyList(<<PyStr(<<"x">>), PyStr(<<"y">>), PyStr(<<"z">>)>>)}

RangeValues ==
    {Range(0, 2), Range(2, 2), RangeStep(1, 6, 2), RangeStep(3, 0, -2)}

\* the entries a context is made of; a paired key has str values, or lists
\* of them, or a range
ContextEntries ==
    {en \in {Entry(k, v) : k \in ContextKeys,
                           v \in ScalarValues \cup ListValues \cup RangeValues} :
        key_is_paired(en.k) => en.v.t # "int"}

\* the contexts given to parse: dicts, so no key twice
Contexts ==
    {c \in SeqsUpTo(ContextEntries, MaxContextLen) :
        \A i \in 1..Len(c), j \in 1..Len(c) : i # j => c[i].k # c[j].k}

\* the flat contexts given to merge
Flats ==
    {<<>>,
     <<Entry(<<"a">>, PyInt(1))>>,
     <<Entry(<<"a">>, PyInt(2)), Entry(<<"b">>, PyInt(1))>>}

FlatLists == SeqsUpTo(Flats, MaxListLen)

\* the paired keys and the paired values given to unpair
PairedKeys ==
    {<<"a", ",", "b">>, <<"a", " ", ",", " ", "b">>, <<"a", ",", "a">>,
     <<"a", ",", "b", ",", "c">>, <<"a", ",">>, <<"a", ",", " ", "a", " ">>}

PairedVals ==
    {<<"1">>, <<"1", ",", "2">>, <<" ", "1", " ", ",", "2", ",", "3">>,
     <<"1", ",", ",", "2">>, <<>>}

\* a call that has not been made yet
Call(fn, args) == [fn |-> fn, args |-> args, made |-> FALSE, result |-> <<>>]

\* ContextHelper.parse(context)
call_parse ==
    /\ call.fn = "parse" /\ ~call.made
    /\ call' = [call EXCEPT !.made = TRUE, !.result = parse(call.args[1])]
    /\ UNCHANGED <<plan_vars, run_vars>>

\* ContextHelper.merge of two lists, in both orders
call_merge ==
    /\ call.fn = "merge" /\ ~call.made
    /\ call' = [call EXCEPT !.made = TRUE, !.result =
                    [ab |-> merge(call.args[1], call.args[2]),
                     ba |-> merge(call.args[2], call.args[1])]]
    /\ UNCHANGED <<plan_vars, run_vars>>

\* ContextHelper.merge of three lists, nested to the left and to the right
call_merge_merge ==
    /\ call.fn = "merge_merge" /\ ~call.made
    /\ call' = [call EXCEPT !.made = TRUE, !.result =
                    [left |-> merge(merge(call.args[1], call.args[2]), call.args[3]),
                     right |-> merge(call.args[1], merge(call.args[2], call.args[3]))]]
    /\ UNCHANGED <<plan_vars, run_vars>>

\* ContextHelper.unpair(key, val) of a paired key and a str
call_unpair ==
    /\ call.fn = "unpair" /\ ~call.made
    /\ call' = [call EXCEPT !.made = TRUE, !.result = unpair(call.args[1], PyStr(call.args[2]))]
    /\ UNCHANGED <<plan_vars, run_vars>>

InitContextHelper ==
    /\ pipeline = Pipeline(<<>>, <<>>)
    /\ phase = "ContextHelper"
    /\ Constructed
    /\ \/ \E c \in Contexts : call = Call("parse", <<c>>)
       \/ \E A \in FlatLists, B \in FlatLists : call = Call("merge", <<A, B>>)
       \/ \E A \in FlatLists, B \in FlatLists, C \in FlatLists :
             call = Call("merge_merge", <<A, B, C>>)
       \/ \E k \in PairedKeys, v \in PairedVals : call = Call("unpair", <<k, v>>)

NextContextHelper ==
    \/ call_parse
    \/ call_merge
    \/ call_merge_merge
    \/ call_unpair

SpecContextHelper == InitContextHelper /\ [][NextContextHelper]_vars

\* ------------------------------------------------------------------------
\* Vocabulary of the properties
\* ------------------------------------------------------------------------

Executables == 1..Len(executable_list)

Serial(e) == executable_list[e].block_serial

Hash(e) == executable_list[e].hash

\* every Pipe of the plan
AllPipes ==
    UNION {{outgoing_pipes[u][k] : k \in 1..Len(outgoing_pipes[u])}
           : u \in 1..Len(outgoing_pipes)}

InRun == phase \in {"run", "finished", "aborted"}

\* the worker of e has called the external runner
RunnerInvoked(e) == pc[e] \in {"running", "sending", "done", "raised"}

\* e started on scratch state no earlier run had touched: an empty in-file
\* and an ingest directory without old files
FreshStart(e) == e \notin resumed /\ e \notin stale_dirs

\* u has put its output file of this run into the ingest directory of e
Delivered(u, e) ==
    \E f \in ingest_files :
        f.dir = Hash(e) /\ f.name = Hash(u) /\ f.text.run = "this"

\* the executables reached from those of `from_set` over pipes, through
\* executables of `through` only
RECURSIVE DownstreamVia(_, _)
DownstreamVia(from_set, through) ==
    LET more == {p.to_obj : p \in {q \in AllPipes :
                     q.pipe_from_obj \in from_set /\ q.to_obj \in through}}
    IN  IF more \subseteq from_set THEN from_set
        ELSE DownstreamVia(from_set \cup more, through)

\* the executables (transitively) downstream of u
Downstream(u) ==
    DownstreamVia({p.to_obj : p \in {q \in AllPipes : q.pipe_from_obj = u}},
                  Executables)

\* those reached over executables that all started fresh
FreshDownstream(u) ==
    LET fresh == {e \in Executables : FreshStart(e)}
    IN  DownstreamVia({p.to_obj : p \in {q \in AllPipes :
                          q.pipe_from_obj = u /\ q.to_obj \in fresh}}, fresh)

\* the pipes of e that executable.send has opened its file for
OpenedPipes(e) ==
    IF pc[e] = "done" THEN 1..Len(outgoing_pipes[e])
    ELSE IF pc[e] = "sending"
    THEN {k \in 1..sending[e] : k < sending[e] \/ TransferIsOpen(e)}
    ELSE {}

\* the paths of the scratch directory that the worker of e has opened for
\* writing so far in this run: the out-file (FilePipe.__init__, the
\* runner), the in-file (write_data_pipe_file) and the files of its pipes
WrittenPaths(e) ==
    (IF pc[e] # "queued"
     THEN {[dir |-> "", name |-> "cache", hash |-> Hash(e), ext |-> ".out"]}
     ELSE {})
    \cup
    (IF input_json[e] # <<>> /\ cache_in[Hash(e)] = input_json[e]
        /\ input_json[e][1].run = "this"
     THEN {[dir |-> "", name |-> "cache", hash |-> Hash(e), ext |-> ".in"]}
     ELSE {})
    \cup
    {[dir |-> Hash(outgoing_pipes[e][k].to_obj), name |-> "",
      hash |-> Hash(e), ext |-> ""] : k \in OpenedPipes(e)}

\* ------------------------------------------------------------------------
\* Properties
\* ------------------------------------------------------------------------

\* C1 (serial barrier, O1): whenever the worker of an executable has been
\* started, every executable of a lower serial that the run dispatches
\* (serial >= from) has finished its worker: its runner returned and its
\* outputs are sent, or its timeout is reported.
C1_SerialBarrier ==
    InRun =>
        \A e \in Executables, f \in Executables :
            (pc[f] # "queued" /\ Serial(e) < Serial(f) /\ Serial(e) >= given.from)
                => Finished(e)

\* a worker of a later serial is waiting while an earlier serial has run
C1_Witness ==
    /\ InRun
    /\ \E e \in Executables, f \in Executables :
          /\ Serial(e) < Serial(f) /\ Serial(e) >= given.from
          /\ pc[f] = "waiting" /\ pc[e] = "done"

\* C2 as claimed (schedule monotonicity, P6): for every Pipe u -> e, when
\* the worker of e has called the external runner, the worker of u has
\* finished (completed or timed out).
C2_ScheduleMonotonicity ==
    InRun =>
        \A p \in AllPipes :
            RunnerInvoked(p.to_obj) => Finished(p.pipe_from_obj)

\* C2 amended: for every Pipe u -> e where e started with an empty in-file
\* and an ingest directory without old files, when the worker of e has
\* called the external runner, the runner of u has returned and u has put
\* its output file into the ingest directory of e.
C2_RunnerAfterDelivery ==
    InRun =>
        \A p \in AllPipes :
            (RunnerInvoked(p.to_obj) /\ FreshStart(p.to_obj))
                => /\ pc[p.pipe_from_obj] \in {"sending", "done"}
                   /\ Delivered(p.pipe_from_obj, p.to_obj)

\* a fresh downstream is in its runner while its upstream is still sending
C2_Witness ==
    /\ InRun
    /\ \E p \in AllPipes :
          /\ RunnerInvoked(p.to_obj) /\ FreshStart(p.to_obj)
          /\ pc[p.pipe_from_obj] = "sending"

\* C3 (ingest completeness, P7): the packet handed to the external runner
\* of e has exactly n_pipes_in entries of data, one per upstream Pipe of e.
C3_IngestCompleteness ==
    InRun =>
        \A e \in Executables :
            input_json[e] # <<>> =>
                /\ Cardinality(input_json[e][1].data) = n_pipes_in[e]
                /\ {d.name : d \in input_json[e][1].data}
                      = {Hash(u) : u \in UpstreamSet(e)}

\* C4 (serial direction of pipes, I5/P5): no Pipe goes from a higher serial
\* to a lower serial.
C4_PipesForwardInSerial ==
    \A p \in AllPipes : Serial(p.pipe_from_obj) <= Serial(p.to_obj)

\* C5 (only planned producers are linked): the upstream of every Pipe was
\* admitted to the plan strictly before its downstream.
C5_UpstreamPlannedBefore ==
    \A p \in AllPipes : p.pipe_from_obj < p.to_obj

\* C6 (takes is linked or planning fails): while queue_tasks has not raised,
\* every planned executable whose script has a takes tag has n_pipes_in >= 1;
\* when it has raised, the executable it was linking has a takes tag that is
\* in no producer index, and it is the only one without an upstream.
C6_TakesLinkedOrRaised ==
    \A e \in Executables :
        Truthy(admitted_from[e].takes) =>
            \/ n_pipes_in[e] >= 1
            \/ /\ phase = "raised"
               /\ e = Len(executable_list)
               /\ admitted_from[e].takes \notin DOMAIN pipeline_level_executable_index
               /\ admitted_from[e].takes \notin DOMAIN block_level_executable_index

\* queue_tasks has raised on an unresolved takes tag
C6_Witness ==
    /\ phase = "raised"
    /\ Truthy(admitted_from[Len(executable_list)].takes)
    /\ n_pipes_in[Len(executable_list)] = 0

\* the plan holds no two equal executables
NoDuplicates ==
    \A a \in Executables, b \in Executables :
        a # b => ~ExecutableEq(executable_list[a], executable_list[b])

\* a step of queue_tasks whose candidate equals a planned executable
\* leaves the plan, the pipeline-level index and the pipes as they are, and
\* adds nothing to the block-level index
DiscardChangesNothing ==
    (/\ phase = "queue_tasks"
     /\ iteration <= Len(Iterations(pipeline))
     /\ iteration' = iteration + 1
     /\ Contains(executable_list, CandidateAt(iteration)))
        => /\ executable_list' = executable_list
           /\ pipeline_level_executable_index' = pipeline_level_executable_index
           /\ block_level_executable_index'
                 \in {block_level_executable_index, EmptyIndex}
           /\ n_pipes_in' = n_pipes_in
           /\ outgoing_pipes' = outgoing_pipes

\* C7 (deduplication, I1/P4): at every point of queue_tasks the plan holds
\* no two executables with equal (context_instance, block_name,
\* script_guid), and a candidate equal to a planned executable is discarded:
\* it is registered in no producer index and gets no pipes.
C7_Deduplication == []NoDuplicates /\ [][DiscardChangesNothing]_vars

\* planning has ended with fewer executables than candidates
C7_Witness ==
    /\ phase = "planned"
    /\ Len(executable_list) < Len(Iterations(pipeline))
    /\ Len(executable_list) >= 2

\* C8 (pipe count, I2): n_pipes_in of every executable is the number of
\* Pipes in all outgoing_pipes lists that end on it, and no two of them have
\* the same upstream.
C8_PipeCount ==
    \A e \in Executables :
        LET into == {<<u, k>> \in Executables \X (1..Len(executable_list)) :
                        /\ k <= Len(outgoing_pipes[u])
                        /\ outgoing_pipes[u][k].to_obj = e}
        IN  /\ n_pipes_in[e] = Cardinality(into)
            /\ \A x \in into, y \in into : x[1] = y[1] => x = y

\* an executable with two pipes in
C8_Witness == \E e \in Executables : n_pipes_in[e] = 2

\* C9 (upstream timeout): a worker that has reported a timeout has written
\* no input packet, has not invoked the external runner (its out-file is
\* empty) and has written no file into any ingest directory.
C9_TimeoutDoesNothing ==
    InRun =>
        \A e \in Executables :
            pc[e] = "failed" =>
                /\ input_json[e] = <<>>
                /\ \/ cache_in[Hash(e)] = <<>>
                   \/ cache_in[Hash(e)][1].run = "prior"
                /\ cache_out[Hash(e)] = <<>>
                /\ ~\E f \in ingest_files :
                       f.name = Hash(e) /\ f.text.run = "this"

\* a worker with an upstream has exhausted a wait loop of at least one pass
C9_Witness ==
    /\ InRun
    /\ \E e \in Executables :
          /\ pc[e] = "failed" /\ n_pipes_in[e] >= 1
          /\ Len(outgoing_pipes[e]) >= 1
          /\ wait_i[e] >= 1

\* C10 as claimed (cascade failure): once u has timed out, no executable
\* downstream of u invokes its runner, and each one that the run dispatches
\* has timed out when the run ends.
C10_Cascade ==
    InRun =>
        \A u \in Executables :
            pc[u] = "failed" =>
                \A e \in Downstream(u) :
                    /\ ~RunnerInvoked(e)
                    /\ (phase = "finished" /\ Serial(e) >= given.from)
                          => pc[e] = "failed"

\* C10 amended: once u has timed out, no executable that is downstream of u
\* over executables that all started with an empty in-file and an ingest
\* directory without old files invokes its runner, and each one that the
\* run dispatches has timed out when the run ends.
C10_FreshCascade ==
    InRun =>
        \A u \in Executables :
            pc[u] = "failed" =>
                \A e \in FreshDownstream(u) :
                    /\ ~RunnerInvoked(e)
                    /\ (phase = "finished" /\ Serial(e) >= given.from)
                          => pc[e] = "failed"

\* a timeout has cascaded over two pipes although the loop was entered
C10_Witness ==
    /\ phase = "finished"
    /\ given.n_times_before_timeout >= 1
    /\ \E u \in Executables, e \in Executables :
          /\ u # e
          /\ pc[u] = "failed" /\ pc[e] = "failed"
          /\ e \in FreshDownstream(u)
          /\ \E m \in FreshDownstream(u) : m # e /\ e \in FreshDownstream(m)

\* C11 (a timeout does not abort the run): once an executable has timed
\* out, the run is not aborted, and when it has ended every executable of a
\* serial >= from_serial has been dispatched to a worker.
C11_TimeoutDoesNotAbort ==
    InRun =>
        \A u \in Executables :
            pc[u] = "failed" =>
                /\ phase # "aborted"
                /\ phase = "finished" =>
                      \A e \in Executables :
                          Serial(e) >= given.from => pc[e] # "queued"

\* after a timeout in a run whose wait loop was entered, another executable
\* of the same serial has completed and a later serial has been dispatched
C11_Witness ==
    /\ phase = "finished"
    /\ given.n_times_before_timeout >= 1
    /\ \E u \in Executables, e \in Executables, f \in Executables :
          /\ pc[u] = "failed"
          /\ e # u /\ Serial(e) = Serial(u) /\ pc[e] = "done"
          /\ Serial(f) > Serial(u) /\ pc[f] # "queued"

\* C12 (runner errors do not stop other workers): when the external runner
\* has raised for an executable and the run has ended, every other
\* executable of the same serial and of the later serials has been
\* dispatched to a worker.
C12_RunnerErrorContinues ==
    (phase \in {"finished", "aborted"}) =>
        \A r \in Executables :
            pc[r] = "raised" =>
                \A e \in Executables :
                    Serial(e) >= Serial(r) => pc[e] # "queued"

\* C13 (no write-write races on scratch files): no two distinct executables
\* of the plan write the same path: each file of an ingest directory and
\* each cache<hash>.in / cache<hash>.out file is written by one worker only.
C13_NoWriteWriteRaces ==
    InRun =>
        \A a \in Executables, b \in Executables :
            a # b => WrittenPaths(a) \cap WrittenPaths(b) = {}

\* C14 (idempotent cleanup, P8): a clean that follows a clean which
\* succeeded does not raise, and a purge that finds no scratch directory
\* (a second purge) does not raise.
C14_IdempotentCleanup ==
    [][/\ phase = "cleaned" => phase' # "clean_raised"
       /\ phase = "purged" => phase' # "purge_raised"]_vars

\* C15 (scratch state after a run): when run followed by clean has ended
\* and an executable had timed out, every ingest directory is still there.
C15_DirsLeftOnTimeout ==
    (phase = "cleaned" /\ \E u \in Executables : pc[u] = "failed")
        => \A e \in Executables : Hash(e) \in ingest_dirs

\* only executables of a serial >= from_serial are dispatched, no executable
\* is dispatched while one of a lower serial >= from_serial still is not,
\* and when run has returned all of them have been dispatched
SerialSelection ==
    InRun =>
        \A e \in Executables :
            /\ pc[e] # "queued" => Serial(e) >= given.from
            /\ pc[e] # "queued" =>
                  \A f \in Executables :
                      (pc[f] = "queued" /\ Serial(f) >= given.from)
                          => Serial(e) <= Serial(f)
            /\ (phase = "finished" /\ Serial(e) >= given.from) => pc[e] # "queued"

\* a worker is started only for an executable that had none before
DispatchedOnce ==
    (phase = "run" /\ phase' = "run") =>
        \A e \in Executables :
            (pc[e] # "waiting" /\ pc'[e] = "waiting") => pc[e] = "queued"

\* C16 (serial selection and order): run dispatches exactly the executables
\* of a serial >= from_serial, serial by serial in ascending order and each
\* once; executables of a serial < from_serial are never run.
C16_SerialSelectionAndOrder == []SerialSelection /\ [][DispatchedOnce]_vars

\* a run from a later serial has returned: an executable below from_serial
\* was left out and two serials from it on were dispatched
C16_Witness ==
    /\ phase = "finished"
    /\ \E t \in Executables, u \in Executables, f \in Executables :
          /\ Serial(t) < given.from /\ pc[t] = "queued"
          /\ Serial(u) < Serial(f)
          /\ pc[u] # "queued" /\ pc[f] # "queued"

\* ------------------------------------------------------------------------
\* ContextHelper claims
\* ------------------------------------------------------------------------

\* len(range(start, end, step)) for step # 0, by arithmetic
RangeSize(dct) ==
    LET step == IF "step" \in DOMAIN dct THEN dct.step ELSE 1
    IN  IF step > 0
        THEN IF dct.end > dct.start
             THEN (dct.end - dct.start + step - 1) \div step ELSE 0
        ELSE IF dct.start > dct.end
             THEN (dct.start - dct.end - step - 1) \div (0 - step) ELSE 0

\* the factor a value contributes to the number of flat contexts
ExpansionCardinality(val) ==
    IF val.t = "list" THEN Len(val.v)
    ELSE IF val.t = "range" THEN RangeSize(val.v)
    ELSE 1

\* the product of the factors of the entries i.. of a context
RECURSIVE ExpansionProduct(_, _)
ExpansionProduct(context, i) ==
    IF i > Len(context) THEN 1
    ELSE ExpansionCardinality(context[i].v) * ExpansionProduct(context, i + 1)

ParseMade == call.fn = "parse" /\ call.made

\* C17: parse returns as many flat contexts as the product of the lengths
\* of the context's list values and the sizes of its range values
\* (range(start, end, step)), a scalar counting 1; the empty context gives
\* exactly [{}].
C17_FlattenCardinality ==
    ParseMade =>
        /\ Len(call.result) = ExpansionProduct(call.args[1], 1)
        /\ call.args[1] = <<>> => call.result = <<<<>>>>

\* a context with a list of two and a stepped range of three was parsed
\* into six flat contexts
C17_Witness ==
    /\ ParseMade
    /\ \E i, j \in 1..Len(call.args[1]) :
          /\ call.args[1][i].v.t = "list" /\ Len(call.args[1][i].v.v) = 2
          /\ call.args[1][j].v = RangeStep(1, 6, 2)
    /\ Len(call.result) = 6

MergeMade == call.fn = "merge" /\ call.made

\* the dict d maps key k to value v
Binds(d, k, v) == \E n \in 1..Len(d) : d[n].k = k /\ d[n].v = v

\* the dict r is {**a, **b}: every key of b with b's value, every key only
\* in a with a's value, and no other key
IsOverride(r, a, b) ==
    /\ \A n \in 1..Len(b) : Binds(r, b[n].k, b[n].v)
    /\ \A n \in 1..Len(a) : ~DictHasKey(b, a[n].k) => Binds(r, a[n].k, a[n].v)
    /\ \A n \in 1..Len(r) : DictHasKey(a, r[n].k) \/ DictHasKey(b, r[n].k)
    /\ \A n, o \in 1..Len(r) : r[n].k = r[o].k => n = o

\* C18: merge(A, B) has |A| * |B| elements, the element of the pair
\* (A[i], B[j]) at position (i - 1) * |B| + j (A-major order), and that
\* element maps every key of B[j] to B[j]'s value and every key only in A[i]
\* to A[i]'s value.
C18_MergeCardinalityRightBias ==
    MergeMade =>
        LET A == call.args[1]
            B == call.args[2]
            R == call.result.ab
        IN  /\ Len(R) = Len(A) * Len(B)
            /\ \A i \in 1..Len(A), j \in 1..Len(B) :
                    IsOverride(R[(i - 1) * Len(B) + j], A[i], B[j])

\* two lists of two different flat contexts each were merged, and some a
\* and b conflict on a key while a has a key of its own
C18_Witness ==
    /\ MergeMade
    /\ LET A == call.args[1]
           B == call.args[2]
       IN  /\ Len(A) = 2 /\ A[1] # A[2]
           /\ Len(B) = 2 /\ B[1] # B[2]
           /\ \E i \in 1..2, j \in 1..2 :
                 /\ \E n \in 1..Len(A[i]), o \in 1..Len(B[j]) :
                       A[i][n].k = B[j][o].k /\ A[i][n].v # B[j][o].v
                 /\ \E n \in 1..Len(A[i]) : ~DictHasKey(B[j], A[i][n].k)
    /\ Len(call.result.ab) = 4

MergeMergeMade == call.fn = "merge_merge" /\ call.made

\* list == on lists of dicts: equal elements in the same order
ListEq(X, Y) ==
    /\ Len(X) = Len(Y)
    /\ \A i \in 1..Len(X) : DictEq(X[i], Y[i])

\* the flat contexts a and b share a key with different values
Conflict(a, b) ==
    \E n \in 1..Len(a), o \in 1..Len(b) :
        a[n].k = b[o].k /\ ~ValEq(a[n].v, b[o].v)

\* merge(merge(A, B), C) equals merge(A, merge(B, C)) as lists
Associative == MergeMergeMade => ListEq(call.result.left, call.result.right)

\* C19 as stated: merge is associative, and merge(A, B) differs from
\* merge(B, A) whenever a flat context of A and a flat context of B share a
\* key with different values.
C19_AssociativeNotCommutative ==
    /\ Associative
    /\ MergeMade =>
          LET A == call.args[1]
              B == call.args[2]
          IN  (\E i \in 1..Len(A), j \in 1..Len(B) : Conflict(A[i], B[j]))
                  => ~ListEq(call.result.ab, call.result.ba)

\* C19, amended: merge is associative, and merge(A, B) differs from
\* merge(B, A) for all non-empty A and B whose first flat contexts share a
\* key with different values.
C19_AssociativeFirstConflictNotCommutative ==
    /\ Associative
    /\ MergeMade =>
          LET A == call.args[1]
              B == call.args[2]
          IN  (A # <<>> /\ B # <<>> /\ Conflict(A[1], B[1]))
                  => ~ListEq(call.result.ab, call.result.ba)

\* three lists of two flat contexts each, conflicting from list to list,
\* were merged in both nestings into the same eight flat contexts
C19_Witness ==
    /\ MergeMergeMade
    /\ LET A == call.args[1]
           B == call.args[2]
           C == call.args[3]
       IN  /\ Len(A) = 2 /\ Len(B) = 2 /\ Len(C) = 2
           /\ A[1] # A[2] /\ B[1] # B[2] /\ C[1] # C[2]
           /\ Conflict(A[1], B[1]) /\ Conflict(B[2], C[1]) /\ Conflict(A[2], C[2])
    /\ Len(call.result.left) = 8
    /\ ListEq(call.result.left, call.result.right)

UnpairMade == call.fn = "unpair" /\ call.made

\* the number of components of a paired str: one more than its delimiters
Arity(s) == 1 + Cardinality({i \in 1..Len(s) : s[i] = paired_delimiter})

\* the position of the m-th delimiter of s; 0 before the first component
\* and Len(s) + 1 after the last
DelimiterAt(s, m) ==
    IF m = 0 THEN 0
    ELSE IF m = Arity(s) THEN Len(s) + 1
    ELSE CHOOSE i \in 1..Len(s) :
            /\ s[i] = paired_delimiter
            /\ Cardinality({j \in 1..i : s[j] = paired_delimiter}) = m

\* s without its leading and trailing blanks
Trimmed(s) ==
    LET inked == {i \in 1..Len(s) : s[i] # " "}
    IN  IF inked = {} THEN <<>>
        ELSE SubSeq(s, CHOOSE i \in inked : \A j \in inked : i <= j,
                       CHOOSE i \in inked : \A j \in inked : i >= j)

\* the i-th stripped component of a paired str
Component(s, i) ==
    Trimmed(SubSeq(s, DelimiterAt(s, i - 1) + 1, DelimiterAt(s, i) - 1))

\* unpair(k, v) has min(a, arity(v)) entries and binds the i-th stripped
\* component of k to the i-th stripped component of v
PairArity(k, v, result) ==
    LET n == IF Arity(k) <= Arity(v) THEN Arity(k) ELSE Arity(v)
    IN  /\ Len(result) = n
        /\ \A i \in 1..n : Binds(result, Component(k, i), PyStr(Component(v, i)))

\* C20 as stated: for every paired key k with a components and every
\* paired value v, unpair(k, v) has exactly min(a, arity(v)) entries, the
\* i-th stripped key component bound to the i-th stripped value component.
C20_PairArity ==
    UnpairMade => PairArity(call.args[1], call.args[2], call.result)

\* C20, amended: the same for every paired key whose stripped components
\* are pairwise distinct.
C20_PairArityDistinctComponents ==
    UnpairMade =>
        LET k == call.args[1]
        IN  (\A i, j \in 1..Arity(k) : Component(k, i) = Component(k, j) => i = j)
                => PairArity(k, call.args[2], call.result)

\* a key of two blank-padded components was unpaired with a value of three:
\* two entries under the stripped names
C20_Witness ==
    /\ UnpairMade
    /\ call.args[1] = <<"a", " ", ",", " ", "b">>
    /\ call.args[2] = <<" ", "1", " ", ",", "2", ",", "3">>
    /\ Len(call.result) = 2
    /\ Binds(call.result, <<"b">>, PyStr(<<"2">>))

\* ------------------------------------------------------------------------
\* Definitions claim
\* ------------------------------------------------------------------------

\* the context with definitions[key] written at each entry that holds the
\* sentinel, the entry staying where it is
InlinedContext(context, definitions) ==
    [i \in 1..Len(context) |->
        IF is_definition(context[i].k, context[i].v)
        THEN Entry(context[i].k, DictGet(definitions, context[i].k))
        ELSE context[i]]

\* the document written without definitions
InlinedDocument(data) ==
    LET defs == data.definitions
        in_script(sc) == [sc EXCEPT !.context = InlinedContext(@, defs)]
        in_block(bl) ==
            [bl EXCEPT !.context = InlinedContext(@, defs),
                       !.scripts = [i \in 1..Len(@) |-> in_script(@[i])]]
    IN  [name |-> data.name, version |-> data.version,
         context |-> InlinedContext(data.context, defs),
         blocks |-> [i \in 1..Len(data.blocks) |-> in_block(data.blocks[i])]]

\* the plan queue_tasks makes of a document, from the k-th execution of its
\* loop body on: plan = [executable_list, n_pipes_in, outgoing_pipes,
\* pipeline_index, block_index, raised]
RECURSIVE PlanFrom(_, _, _)
PlanFrom(pl, k, plan) ==
    LET its == Iterations(pl)
    IN  IF k > Len(its) \/ plan.raised THEN plan
        ELSE
        LET it == its[k]
            block == pl.blocks[it.bi]
            script == block.scripts[it.si]
            executable == Executable(it.context_instance, script.guid, script.path,
                                     block.name, block.serial, pl.version, pl.name)
            block_index0 ==
                IF k = 1 \/ its[k - 1].bi # it.bi \/ its[k - 1].ci # it.ci
                THEN EmptyIndex ELSE plan.block_index
            me == Len(plan.executable_list) + 1
            pipeline_index1 == IndexAppend(plan.pipeline_index, script.returns, me)
            block_index1 == IndexAppend(block_index0, script.returns, me)
            ups == IF Truthy(script.takes)
                   THEN UpstreamsOf(script.takes, block_index1, pipeline_index1)
                   ELSE [raise |-> FALSE, list |-> <<>>]
            links == ConnectAll(
                        [n_pipes_in |-> Append(plan.n_pipes_in, 0),
                         outgoing_pipes |-> Append(plan.outgoing_pipes, <<>>)],
                        ups.list, 1, me)
        IN  IF Contains(plan.executable_list, executable)
            THEN PlanFrom(pl, k + 1, [plan EXCEPT !.block_index = block_index0])
            ELSE PlanFrom(pl, k + 1,
                    [executable_list |-> Append(plan.executable_list, executable),
                     n_pipes_in |-> links.n_pipes_in,
                     outgoing_pipes |-> links.outgoing_pipes,
                     pipeline_index |-> pipeline_index1,
                     block_index |-> block_index1,
                     raised |-> ups.raise])

PlanOf(pl) ==
    PlanFrom(pl, 1,
        [executable_list |-> <<>>, n_pipes_in |-> <<>>, outgoing_pipes |-> <<>>,
         pipeline_index |-> EmptyIndex, block_index |-> EmptyIndex,
         raised |-> FALSE])

\* the plan the orchestrator has made is the plan of its document
PlanIsPlanOf ==
    phase \in {"planned", "raised"} =>
        LET plan == PlanOf(pipeline)
        IN  /\ executable_list = plan.executable_list
            /\ n_pipes_in = plan.n_pipes_in
            /\ outgoing_pipes = plan.outgoing_pipes
            /\ (phase = "raised") = plan.raised

\* no entry of a context of the document holds the sentinel
NoSentinel(pl) ==
    LET clear(context) ==
            \A i \in 1..Len(context) : ~is_definition(context[i].k, context[i].v)
    IN  /\ clear(pl.context)
        /\ \A b \in 1..Len(pl.blocks) :
              /\ clear(pl.blocks[b].context)
              /\ \A c \in 1..Len(pl.blocks[b].scripts) :
                    clear(pl.blocks[b].scripts[c].context)

\* C21 (definition substitution is inlining): the plan of a document with
\* definitions holds the same executables (equal under __eq__) in the same
\* order with the same pipes as the plan of the document with the
\* definitions written at the entries that refer to them, and the parsed
\* document holds no sentinel.
C21_SubstitutionIsInlining ==
    (phase = "planned" /\ pipeline = orchestrator_parse(DataDefinitions)) =>
        LET inlined == PlanOf(InlinedDocument(DataDefinitions))
        IN  /\ NoSentinel(pipeline)
            /\ Len(executable_list) = Len(inlined.executable_list)
            /\ \A e \in Executables :
                  ExecutableEq(executable_list[e], inlined.executable_list[e])
            /\ n_pipes_in = inlined.n_pipes_in
            /\ outgoing_pipes = inlined.outgoing_pipes

\* ------------------------------------------------------------------------
\* Linker claims
\* ------------------------------------------------------------------------

\* the executables registered under the takes tag of e when e is linked
\* (e itself is registered before the lookup)
GlobalProducers(e) ==
    {u \in Executables : u <= e /\ admitted_from[u].returns = admitted_from[e].takes}

\* those of them registered in the block-level index of the block-context
\* iteration that admitted e
LocalProducers(e) ==
    {u \in GlobalProducers(e) :
        /\ admitted_from[u].bi = admitted_from[e].bi
        /\ admitted_from[u].ci = admitted_from[e].ci}

\* C22 (linker scoping rule): the upstream set of an admitted executable
\* with a takes tag T is exactly the executables registered under T in the
\* block-level index of its block-context iteration if there are any, and
\* otherwise exactly the executables registered under T so far in the
\* pipeline-level index; never both.
C22_LinkerScoping ==
    \A e \in Executables :
        Truthy(admitted_from[e].takes) =>
            UpstreamSet(e) = IF LocalProducers(e) # {} THEN LocalProducers(e)
                             ELSE GlobalProducers(e)

\* an executable is linked to the producer of its block context alone
\* although the plan holds another producer of its takes tag
C22_Witness ==
    \E e \in Executables :
        /\ Truthy(admitted_from[e].takes)
        /\ LocalProducers(e) # {}
        /\ GlobalProducers(e) # LocalProducers(e)
        /\ UpstreamSet(e) = LocalProducers(e)

\* ------------------------------------------------------------------------
\* Worker claims
\* ------------------------------------------------------------------------

\* what a sample of is_waiting_for_upstream finds: fewer files in the
\* ingest directory than pipes in, and an empty in-file
StillWaiting(e) ==
    /\ Cardinality({f \in ingest_files : f.dir = Hash(e)}) < n_pipes_in[e]
    /\ cache_in[Hash(e)] = <<>>

\* the counter of the wait loop never exceeds n_times_before_timeout; a
\* worker that reported a timeout counted n_times_before_timeout waiting
\* samples, and one that went on to the runner fewer
SamplesBounded ==
    InRun =>
        \A e \in Executables :
            /\ wait_i[e] <= given.n_times_before_timeout
            /\ pc[e] = "failed" => wait_i[e] = given.n_times_before_timeout
            /\ RunnerInvoked(e) => wait_i[e] < given.n_times_before_timeout

\* a step of a worker in its wait loop: a sample that finds the executable
\* waiting counts and stays in the loop, the first sample that does not
\* goes on to the runner, and after n_times_before_timeout waiting samples
\* the timeout is declared
WaitLoopStep ==
    \A e \in Executables :
        (phase = "run" /\ pc[e] = "waiting" /\ <<pc[e], wait_i[e]>>' # <<pc[e], wait_i[e]>>)
            => IF wait_i[e] = given.n_times_before_timeout
               THEN pc'[e] = "failed" /\ wait_i'[e] = wait_i[e]
               ELSE IF StillWaiting(e)
               THEN pc'[e] = "waiting" /\ wait_i'[e] = wait_i[e] + 1
               ELSE pc'[e] = "running" /\ wait_i'[e] = wait_i[e]

\* no worker is in its wait loop
NoneWaiting == \A e \in DOMAIN pc : pc[e] # "waiting"

\* C23 (wait loop): a worker counts at most n_times_before_timeout waiting
\* samples, goes on to the runner at the first sample that finds
\* n_pipes_in files in the ingest directory or a non-empty in-file,
\* declares the timeout exactly when n_times_before_timeout samples found
\* it waiting, and every wait loop ends.
C23_WaitLoop == []SamplesBounded /\ [][WaitLoopStep]_vars /\ <>[]NoneWaiting

\* one worker went on to its runner after a sample that found it waiting,
\* another has declared its timeout after n_times_before_timeout samples
C23_Witness ==
    /\ InRun
    /\ given.n_times_before_timeout >= 2
    /\ \E e \in Executables, f \in Executables :
          /\ pc[e] = "running" /\ wait_i[e] >= 1 /\ FreshStart(e)
          /\ pc[f] = "failed" /\ wait_i[f] = given.n_times_before_timeout

\* the packet of this run for e: its script, its parameters and the content
\* of every file of its ingest directory
FreshPacket(e) ==
    [script_path |-> executable_list[e].script_path,
     params |-> executable_list[e].context_instance,
     run |-> "this",
     data |-> {[name |-> f.name, text |-> f.text]
                 : f \in {g \in ingest_files : g.dir = Hash(e)}}]

\* a worker builds its packet and goes on to the runner: with no file in
\* the ingest directory and a non-empty in-file, the in-file stays as it is
\* and its packet goes to the runner; otherwise the in-file holds the packet
\* just built, which goes to the runner
BuildsPacket ==
    \A e \in Executables :
        (phase = "run" /\ pc[e] = "waiting" /\ pc'[e] = "running") =>
            IF {g \in ingest_files : g.dir = Hash(e)} = {} /\ cache_in[Hash(e)] # <<>>
            THEN /\ cache_in'[Hash(e)] = cache_in[Hash(e)]
                 /\ input_json'[e] = cache_in[Hash(e)]
            ELSE /\ cache_in'[Hash(e)] = <<FreshPacket(e)>>
                 /\ input_json'[e] = <<FreshPacket(e)>>

\* C24 (resume packet): when a worker builds its input packet, if the
\* ingest directory yields no data and the in-file is non-empty, the
\* in-file is left unchanged and the runner receives the packet it holds;
\* in every other case the in-file is overwritten with the packet just
\* built.
C24_ResumePacket == [][BuildsPacket]_vars

\* the runner of an executable with an upstream was given the packet of an
\* earlier run, which is still in the in-file
C24_Witness ==
    /\ InRun
    /\ \E e \in Executables :
          /\ pc[e] = "running" /\ n_pipes_in[e] >= 1
          /\ e \in resumed
          /\ input_json[e] = <<PriorPacket(e)>>
          /\ cache_in[Hash(e)] = <<PriorPacket(e)>>

\* C25 (complete reads): no worker reads an ingest file that its upstream
\* has created and not finished writing: every entry of the data list of a
\* packet handed to a runner is the full output of the upstream it is named
\* after.
C25_CompleteReads ==
    InRun =>
        \A e \in Executables :
            input_json[e] # <<>> =>
                \A d \in input_json[e][1].data :
                    /\ d.text.written
                    /\ d.text.by = d.name

\* C26 (block-local binding): an executable of a script whose takes tag is
\* the returns tag of an earlier script of the same block has as upstreams
\* only executables admitted in the same iteration over the block-level
\* contexts of that block.
C26_BlockLocalBinding ==
    \A e \in Executables :
        LET at == admitted_from[e]
        IN  (/\ Truthy(at.takes)
             /\ \E si \in 1..(at.si - 1) :
                   pipeline.blocks[at.bi].scripts[si].returns = at.takes)
            => \A u \in UpstreamSet(e) :
                   /\ admitted_from[u].bi = at.bi
                   /\ admitted_from[u].ci = at.ci

\* no script of the plan raises in its runner
NoRunnerRaises ==
    \A e \in Executables : executable_list[e].script_path \notin ScriptsThatRaise

\* the passage of a worker: handed out, wait loop, then either the runner
\* (and the sending of its output) or the report of the timeout; no way
\* back, so the runner is invoked at most once, the timeout reported at
\* most once, and never both
OnePassage ==
    InRun =>
        \A e \in Executables :
            pc'[e] # pc[e] =>
                <<pc[e], pc'[e]>> \in
                    {<<"queued", "waiting">>, <<"waiting", "running">>,
                     <<"waiting", "failed">>, <<"running", "sending">>,
                     <<"running", "done">>, <<"running", "raised">>,
                     <<"sending", "done">>}

\* when run has returned, every executable of a serial >= from_serial has
\* had its runner return or has reported its timeout, the others were not
\* handed out
AllSettled ==
    phase = "finished" =>
        \A e \in Executables :
            IF Serial(e) >= given.from THEN pc[e] \in {"done", "failed"}
            ELSE pc[e] = "queued"

\* C27 (exactly-once execution): when no runner raises (and each returns),
\* run() returns, and every executable of a serial >= from_serial has
\* either invoked its runner exactly once or reported a timeout exactly
\* once, never both and never neither.
C27_ExactlyOnce ==
    /\ []AllSettled
    /\ [][OnePassage]_vars
    /\ (phase = "run" /\ NoRunnerRaises) ~> (phase = "finished")

\* a run has returned: one executable ran, one timed out after waiting
C27_Witness ==
    /\ phase = "finished"
    /\ NoRunnerRaises
    /\ given.n_times_before_timeout >= 1
    /\ \E e \in Executables, f \in Executables :
          /\ pc[e] = "done" /\ pc[f] = "failed"
          /\ Serial(e) >= given.from /\ Serial(f) >= given.from

\* executable e reported a timeout none of its upstreams accounts for: each
\* of them ran its runner and sent its output in this run
SpuriousTimeout(e) ==
    /\ pc[e] = "failed"
    /\ \A u \in UpstreamSet(e) : pc[u] = "done"

\* C28 (no spurious timeout): when run has returned, an executable that
\* reported a timeout has an upstream that timed out or was never run; an
\* executable of the run whose upstreams all completed their runners and
\* sent their output has invoked its runner.
C28_NoSpuriousTimeout ==
    phase = "finished" => \A e \in Executables : ~SpuriousTimeout(e)

\* the same for the executables that have upstreams and took at least one
\* sample (the wait loop was entered)
NoSpuriousTimeoutAfterSampling ==
    (phase = "finished" /\ given.n_times_before_timeout >= 1) =>
        \A e \in Executables : UpstreamSet(e) # {} => ~SpuriousTimeout(e)

\* C29 (source executables never time out): an executable with
\* n_pipes_in = 0 never reports a timeout, whatever the run configuration
\* with n_times_before_timeout >= 0.
C29_SourcesNeverTimeOut ==
    \A e \in 1..Len(pc) :
        (n_pipes_in[e] = 0 /\ given.n_times_before_timeout >= 0)
            => pc[e] # "failed"

\* the same for the runs that allow at least one sample
SourcesNeverTimeOutAfterSampling ==
    \A e \in 1..Len(pc) :
        (n_pipes_in[e] = 0 /\ given.n_times_before_timeout >= 1)
            => pc[e] # "failed"

====
